---- MODULE Spec2Model ----
(***************************************************************************)
(* Batch-learning paraphraser: the synonym knowledge store, the batch      *)
(* learner and the paraphrase engine of src/hayi.py (desktop variant) and  *)
(* src/para.py (browser variant).                                          *)
(*                                                                         *)
(* A Python string is a sequence of chunks.  A chunk is either a run of    *)
(* word characters ("Happy") or one non-word character (",", "\t", " ",    *)
(* ".").  Two runs of word characters are never adjacent.  A word of the   *)
(* store is such a string, usually of one chunk.  Only the lemma names of  *)
(* the lexical database hold "_", as a chunk of its own.                   *)
(***************************************************************************)
EXTENDS Integers, Sequences, FiniteSets, TLC

VARIABLES variant, synonyms, newly_added_synonyms, use_nltk, wordnet_ok,
          disk, calls, call, ret, applied

vars == <<variant, synonyms, newly_added_synonyms, use_nltk, wordnet_ok,
          disk, calls, call, ret, applied>>

\* Bounds of the model.
MaxRecords == 2
MaxCalls == 2
MaxVariations == 2

\* ---------------------------------------------------------------- strings

\* The one-chunk string made of the run of word characters c.
W(c) == <<c>>

\* str.lower() on one chunk.
LowerChunk(c) ==
  CASE c = "Happy" -> "happy"
    [] c = "HAPPY" -> "happy"
    [] c = "Hello" -> "hello"
    [] c = "Make" -> "make"
    [] c = ".CSV" -> ".csv"
    [] OTHER -> c

\* str.lower(): chunk by chunk.
Lower(s) == [i \in 1..Len(s) |-> LowerChunk(s[i])]

\* Chunks that are a single non-word character.
Whitespace == {" ", "\t"}
NonWord == Whitespace \cup {",", "."}

\* Chunks that are a single character other than a letter.
NonLetter == NonWord \cup {"_"}

\* x in list
Contains(list, x) == \E i \in 1..Len(list) : list[i] = x

Range(list) == {list[i] : i \in 1..Len(list)}

\* ------------------------------------------------------------ dictionaries

\* dict.get(k, default)
Get(m, k, default) == IF k \in DOMAIN m THEN m[k] ELSE default

\* m[k] = v
Put(m, k, v) == [x \in DOMAIN m \cup {k} |-> IF x = k THEN v ELSE m[x]]

\* {}
EmptyDict == [x \in {} |-> <<>>]

\* The built-in defaults of both variants.
base_synonyms ==
  (W("make") :> <<W("create"), W("construct"), W("build"), W("generate")>>) @@
  (W("say") :> <<W("state"), W("mention"), W("declare"), W("express")>>) @@
  (W("go") :> <<W("travel"), W("move"), W("proceed"), W("advance")>>) @@
  (W("get") :> <<W("obtain"), W("receive"), W("acquire"), W("secure")>>) @@
  (W("take") :> <<W("grab"), W("seize"), W("collect"), W("retrieve")>>)

\* ------------------------------------------------------- the knowledge file

\* The knowledge file is absent, unreadable as JSON, or the text of a JSON
\* object, modelled as the set of its <<key, array>> members.
Absent == [kind |-> "absent", members |-> {}]
Corrupt == [kind |-> "corrupt", members |-> {}]

\* json.dump(self.synonyms, f)
JsonDump(m) == [kind |-> "json", members |-> {<<k, m[k]>> : k \in DOMAIN m}]

\* json.load(f) on the text of a JSON object
JsonLoad(file) ==
  [k \in {e[1] : e \in file.members} |->
     (CHOOSE e \in file.members : e[1] = k)[2]]

\* _load_knowledge that swallows a failed read without a report.
load_knowledge_silent(file) ==
  IF file.kind = "json" THEN [map |-> JsonLoad(file), errors |-> <<>>]
  ELSE [map |-> EmptyDict, errors |-> <<>>]

\* _load_knowledge: the loaded map and the errors it reports.
load_knowledge(file) ==
  IF file.kind = "absent" THEN [map |-> EmptyDict, errors |-> <<>>]
  ELSE IF file.kind = "corrupt"
       THEN [map |-> EmptyDict, errors |-> <<"Error loading knowledge">>]
       ELSE [map |-> JsonLoad(file), errors |-> <<>>]

\* The merge loop without the test for the key: the default always wins.
MergeDefaults_overwrite(loaded) ==
  [k \in DOMAIN loaded \cup DOMAIN base_synonyms |->
     IF k \in DOMAIN base_synonyms THEN base_synonyms[k] ELSE loaded[k]]

\* The merge loop of __init__: a default is inserted only under an absent key.
MergeDefaults(loaded) ==
  [k \in DOMAIN loaded \cup DOMAIN base_synonyms |->
     IF k \in DOMAIN loaded THEN loaded[k] ELSE base_synonyms[k]]

\* _save_knowledge under the outcome of the write: the file afterwards and
\* the errors reported.  open(..., 'w') may fail before the file is touched,
\* or json.dump may fail after the file was truncated.
save_knowledge_silent(m, file, outcome) ==
  CASE outcome = "ok" -> [disk |-> JsonDump(m), errors |-> <<>>]
    [] outcome = "open_failed" -> [disk |-> file, errors |-> <<>>]
    [] outcome = "dump_failed" -> [disk |-> Corrupt, errors |-> <<>>]

save_knowledge(m, file, outcome) ==
  CASE outcome = "ok" -> [disk |-> JsonDump(m), errors |-> <<>>]
    [] outcome = "open_failed" ->
         [disk |-> file, errors |-> <<"Error saving knowledge">>]
    [] outcome = "dump_failed" ->
         [disk |-> Corrupt, errors |-> <<"Error saving knowledge">>]

WriteOutcomes == {"ok", "open_failed", "dump_failed"}

\* ------------------------------------------------------------ _add_synonym

\* add_synonym_para without the membership test.
add_synonym_para_always(m, word, synonym) ==
  LET m1 == IF word \notin DOMAIN m THEN Put(m, word, <<>>) ELSE m
  IN Put(m1, word, Append(m1[word], synonym))

\* src/para.py: one direction only.
add_synonym_para(m, word, synonym) ==
  LET m1 == IF word \notin DOMAIN m THEN Put(m, word, <<>>) ELSE m
  IN IF ~Contains(m1[word], synonym)
     THEN Put(m1, word, Append(m1[word], synonym))
     ELSE m1

\* AddDirection that records in the delta whether or not it appends.
AddDirection_always(st, k, v) ==
  LET m1 == IF k \notin DOMAIN st.synonyms
            THEN Put(st.synonyms, k, <<>>) ELSE st.synonyms
  IN [synonyms |-> IF ~Contains(m1[k], v)
                   THEN Put(m1, k, Append(m1[k], v)) ELSE m1,
      newly |-> Put(st.newly, k, Append(Get(st.newly, k, <<>>), v))]

\* One half of the desktop _add_synonym: key k gets v appended when missing,
\* and the addition is recorded in the delta.
AddDirection(st, k, v) ==
  LET m1 == IF k \notin DOMAIN st.synonyms
            THEN Put(st.synonyms, k, <<>>) ELSE st.synonyms
  IN IF ~Contains(m1[k], v)
     THEN [synonyms |-> Put(m1, k, Append(m1[k], v)),
           newly |-> Put(st.newly, k, Append(Get(st.newly, k, <<>>), v))]
     ELSE [synonyms |-> m1, newly |-> st.newly]

\* add_synonym_hayi without the reverse direction.
add_synonym_hayi_oneway(st, word, synonym) == AddDirection(st, word, synonym)

\* src/hayi.py: word -> synonym, then synonym -> word.
add_synonym_hayi(st, word, synonym) ==
  AddDirection(AddDirection(st, word, synonym), synonym, word)

\* _add_synonym of the given variant on the pair <<synonyms, delta>>.
add_synonym(v, st, word, synonym) ==
  IF v = "desktop"
  THEN add_synonym_hayi(st, word, synonym)
  ELSE [synonyms |-> add_synonym_para(st.synonyms, word, synonym),
        newly |-> st.newly]

\* ------------------------------------------------------------ batch learner

\* str.strip(): leading and trailing whitespace removed.
RECURSIVE LStrip(_)
LStrip(s) ==
  IF s # <<>> /\ Head(s) \in Whitespace THEN LStrip(Tail(s)) ELSE s

RECURSIVE RStrip(_)
RStrip(s) ==
  IF s # <<>> /\ s[Len(s)] \in Whitespace
  THEN RStrip(SubSeq(s, 1, Len(s) - 1)) ELSE s

Strip(s) == RStrip(LStrip(s))

\* The fields of s between the delimiters; always at least one field.
RECURSIVE SplitOn(_, _)
SplitOn(s, delims) ==
  IF s = <<>> THEN << <<>> >>
  ELSE LET rest == SplitOn(Tail(s), delims)
       IN IF Head(s) \in delims
          THEN << <<>> >> \o rest
          ELSE << <<Head(s)>> \o Head(rest) >> \o Tail(rest)

\* csv.reader on one line without quotes: an empty line is an empty row.
CsvRow(line) == IF line = <<>> THEN <<>> ELSE SplitOn(line, {","})

\* re.split(r'[,\t]', line.strip())
TxtParts(line) == SplitOn(Strip(line), {",", "\t"})

\* os.path.splitext(file_path)[1].lower() of a path [root, ext].
file_extension(path) == LowerChunk(path.ext)

\* How a variant reads the lines of the file: "csv", "txt" or "none" (the
\* browser variant opens no file for an unknown extension).
Reader(v, path) ==
  IF file_extension(path) = ".csv" THEN "csv"
  ELSE IF v = "desktop" THEN "txt"
       ELSE IF file_extension(path) \in {".txt", ".tsv"} THEN "txt"
            ELSE "none"

Fields(reader, line) == IF reader = "csv" THEN CsvRow(line) ELSE TxtParts(line)

\* LearnLines counting every line, also one with fewer than two fields.
RECURSIVE LearnLines_countall(_, _, _, _, _)
LearnLines_countall(v, reader, lines, n, acc) ==
  IF n = 0 THEN acc
  ELSE LET prev == LearnLines_countall(v, reader, lines, n - 1, acc)
           row == Fields(reader, lines[n])
       IN IF Len(row) >= 2
          THEN LET word == Lower(row[1])
                   synonym == Lower(row[2])
                   st == add_synonym(v, [synonyms |-> prev.synonyms,
                                         newly |-> prev.newly], word, synonym)
               IN [synonyms |-> st.synonyms, newly |-> st.newly,
                   total_words |-> prev.total_words + 1,
                   new_words |-> prev.new_words + 1,
                   added |-> Append(prev.added, <<word, synonym>>)]
          ELSE [prev EXCEPT !.total_words = @ + 1]

\* The body of the read loop for the first n lines, from the state acc =
\* [synonyms, newly, total_words, new_words, added], where added lists the
\* pairs handed to _add_synonym.
RECURSIVE LearnLines(_, _, _, _, _)
LearnLines(v, reader, lines, n, acc) ==
  IF n = 0 THEN acc
  ELSE LET prev == LearnLines(v, reader, lines, n - 1, acc)
           row == Fields(reader, lines[n])
       IN IF Len(row) >= 2
          THEN LET word == Lower(row[1])
                   synonym == Lower(row[2])
                   st == add_synonym(v, [synonyms |-> prev.synonyms,
                                         newly |-> prev.newly], word, synonym)
               IN [synonyms |-> st.synonyms, newly |-> st.newly,
                   total_words |-> prev.total_words + 1,
                   new_words |-> prev.new_words + 1,
                   added |-> Append(prev.added, <<word, synonym>>)]
          ELSE prev

\* batch_learn_synonyms that starts over when the read faults: the counts
\* and the map of before the call are what is left.
batch_learn_synonyms_rollback(v, m, file, path, lines, open_ok, fault_at, write) ==
  LET reader == Reader(v, path)
      start == [synonyms |-> m, newly |-> EmptyDict, total_words |-> 0,
                new_words |-> 0, added |-> <<>>]
      raised == reader # "none" /\ (~open_ok \/ fault_at > 0)
      n == IF reader = "none" \/ ~open_ok THEN 0
           ELSE IF fault_at > 0 THEN fault_at - 1 ELSE Len(lines)
      read == LearnLines(v, reader, lines, n, start)
      done == IF raised THEN [start EXCEPT !.added = read.added] ELSE read
      saved == save_knowledge(done.synonyms, file, write)
  IN [synonyms |-> done.synonyms,
      newly |-> done.newly,
      added |-> done.added,
      saves |-> IF raised THEN <<>> ELSE <<done.synonyms>>,
      disk |-> IF raised THEN file ELSE saved.disk,
      total_words |-> done.total_words,
      new_words |-> done.new_words,
      errors |-> IF raised THEN <<"Error learning from file">>
                 ELSE saved.errors]

\* batch_learn_synonyms that writes the knowledge file before it reads the
\* records.
batch_learn_synonyms_savefirst(v, m, file, path, lines, open_ok, fault_at, write) ==
  LET reader == Reader(v, path)
      start == [synonyms |-> m, newly |-> EmptyDict, total_words |-> 0,
                new_words |-> 0, added |-> <<>>]
      raised == reader # "none" /\ (~open_ok \/ fault_at > 0)
      n == IF reader = "none" \/ ~open_ok THEN 0
           ELSE IF fault_at > 0 THEN fault_at - 1 ELSE Len(lines)
      done == LearnLines(v, reader, lines, n, start)
      saved == save_knowledge(m, file, write)
  IN [synonyms |-> done.synonyms,
      newly |-> done.newly,
      added |-> done.added,
      saves |-> <<m>>,
      disk |-> saved.disk,
      total_words |-> done.total_words,
      new_words |-> done.new_words,
      errors |-> IF raised THEN <<"Error learning from file">>
                 ELSE saved.errors]

\* batch_learn_synonyms(file_path) on a file with the given lines.  open_ok:
\* the file can be opened; fault_at: 0, or the index of the line whose read
\* raises; write: the outcome of the write of _save_knowledge.  saves lists
\* the maps handed to _save_knowledge, in order.
batch_learn_synonyms(v, m, file, path, lines, open_ok, fault_at, write) ==
  LET reader == Reader(v, path)
      start == [synonyms |-> m, newly |-> EmptyDict, total_words |-> 0,
                new_words |-> 0, added |-> <<>>]
      raised == reader # "none" /\ (~open_ok \/ fault_at > 0)
      n == IF reader = "none" \/ ~open_ok THEN 0
           ELSE IF fault_at > 0 THEN fault_at - 1 ELSE Len(lines)
      done == LearnLines(v, reader, lines, n, start)
      saved == save_knowledge(done.synonyms, file, write)
  IN [synonyms |-> done.synonyms,
      newly |-> done.newly,
      added |-> done.added,
      saves |-> IF raised THEN <<>> ELSE <<done.synonyms>>,
      disk |-> IF raised THEN file ELSE saved.disk,
      total_words |-> done.total_words,
      new_words |-> done.new_words,
      errors |-> IF raised THEN <<"Error learning from file">>
                 ELSE saved.errors]

\* --------------------------------------------------------- lexical expander

\* Threshold for NLTK synonym similarity, in percent.
synonym_confidence == 80

\* lemma.name() of every lemma of every synset of wordnet.synsets(word): the
\* external lexical database, with "_" between the words of a lemma.
wordnet_lemmas(word) ==
  CASE word \in {W("color"), W("colour")} ->
         {W("color"), W("colour"), W("coloring"),
          <<"people", "_", "of", "_", "color">>}
    [] word = W("happy") -> {W("happy"), W("glad"), W("felicitous")}
    [] OTHER -> {}

\* SequenceMatcher(None, a, b).ratio() in percent, rounded down.
Similarity(a, b) ==
  CASE <<a, b>> \in {<<W("color"), W("colour")>>, <<W("colour"), W("color")>>}
         -> 90
    [] <<a, b>> = <<W("color"), W("coloring")>> -> 76
    [] <<a, b>> = <<W("colour"), W("coloring")>> -> 71
    [] <<a, b>> = <<W("happy"), W("glad")>> -> 22
    [] OTHER -> 0

\* lemma.name().replace("_", " ").lower()
LemmaName(name) ==
  Lower([i \in 1..Len(name) |-> IF name[i] = "_" THEN " " ELSE name[i]])

\* str.isalpha(): not empty, and no chunk is a non-letter character.
IsAlpha(s) == s # <<>> /\ \A i \in 1..Len(s) : s[i] \notin NonLetter

\* _get_nltk_synonyms(word) when the lexical database answers.
get_nltk_synonyms(word) ==
  {synonym \in {LemmaName(name) : name \in wordnet_lemmas(word)} :
     /\ synonym # word
     /\ IsAlpha(synonym)
     /\ Similarity(word, synonym) >= synonym_confidence}

\* --------------------------------------------------------- paraphrase engine

\* re.findall(r'\b\w+\b', text): the runs of word characters.
IsWordChunk(c) == c \notin NonWord
Tokenize(text) ==
  LET runs == SelectSeq(text, IsWordChunk)
  IN [i \in 1..Len(runs) |-> W(runs[i])]

\* ' '.join(tokens)
RECURSIVE Join(_)
Join(tokens) ==
  IF tokens = <<>> THEN <<>>
  ELSE IF Len(tokens) = 1 THEN tokens[1]
       ELSE tokens[1] \o <<" ">> \o Join(Tail(tokens))

\* str.split(): the runs of characters other than whitespace.
RECURSIVE Split(_)
Split(text) ==
  IF text = <<>> THEN <<>>
  ELSE IF text[1] \in Whitespace THEN Split(Tail(text))
       ELSE LET rest == Split(Tail(text))
            IN IF Len(text) > 1 /\ text[2] \notin Whitespace
               THEN << <<text[1]>> \o rest[1] >> \o Tail(rest)
               ELSE << <<text[1]>> >> \o rest

\* The learned candidates of a token in src/hayi.py: the list of the store
\* without the token itself.
LearnedCandidates(m, current_word) ==
  LET NotSelf(syn) == syn # current_word
  IN SelectSeq(Get(m, current_word, <<>>), NotSelf)

\* source tag of a ChangeRecord in src/hayi.py.
SourceTag(nltk_on, new_word, nltk_synonyms) ==
  IF nltk_on /\ new_word \in nltk_synonyms THEN "NLTK" ELSE "Learned"

\* TokenOutcomes appending the lowercased token when there is no candidate.
TokenOutcomes_lowered(word, position, m, nltk_on) ==
  LET current_word == Lower(word)
      learned == LearnedCandidates(m, current_word)
      nltk_synonyms == IF nltk_on THEN get_nltk_synonyms(current_word) ELSE {}
      candidates == Range(learned) \cup nltk_synonyms
  IN IF candidates # {}
     THEN {[token |-> new_word,
            changes |-> <<[original |-> word, new |-> new_word,
                           position |-> position,
                           source |-> SourceTag(nltk_on, new_word,
                                                nltk_synonyms)]>>] :
           new_word \in candidates}
     ELSE {[token |-> current_word, changes |-> <<>>]}

\* The body of the token loop of src/hayi.py for one token that lands at the
\* zero-based position: every outcome the random choice allows, as the token
\* appended to modified_words and the records appended to changed_words.
TokenOutcomes(word, position, m, nltk_on) ==
  LET current_word == Lower(word)
      learned == LearnedCandidates(m, current_word)
      nltk_synonyms == IF nltk_on THEN get_nltk_synonyms(current_word) ELSE {}
      candidates == Range(learned) \cup nltk_synonyms
  IN IF candidates # {}
     THEN {[token |-> new_word,
            changes |-> <<[original |-> word, new |-> new_word,
                           position |-> position,
                           source |-> SourceTag(nltk_on, new_word,
                                                nltk_synonyms)]>>] :
           new_word \in candidates}
     ELSE {[token |-> word, changes |-> <<>>]}

\* One pass of src/hayi.py over the first n tokens, as [tokens
\* (modified_words), changed_words].
RECURSIVE HayiPass(_, _, _, _)
HayiPass(words, n, m, nltk_on) ==
  IF n = 0 THEN {[tokens |-> <<>>, changed_words |-> <<>>]}
  ELSE UNION {{[tokens |-> Append(p.tokens, o.token),
                 changed_words |-> p.changed_words \o o.changes] :
                o \in TokenOutcomes(words[n], Len(p.tokens), m, nltk_on)} :
              p \in HayiPass(words, n - 1, m, nltk_on)}

\* What the browser variant puts at a token's place when the 30% check
\* passes.
ParaReplacements(m, word) ==
  LET current_word == Lower(word)
      list == Get(m, current_word, <<current_word>>)
  IN IF list # <<>> THEN Range(list) ELSE {word}

\* One pass of src/para.py over the first n tokens: every outcome of the
\* per-token probability check and of the random choice.
RECURSIVE ParaPass(_, _, _)
ParaPass(words, n, m) ==
  IF n = 0 THEN {<<>>}
  ELSE {Append(p, t) : p \in ParaPass(words, n - 1, m),
                       t \in {words[n]} \cup ParaReplacements(m, words[n])}

\* The variations one pass may return, as [text, tokens, changed_words]; the
\* browser variant returns the text only.
Passes(v, words, m, nltk_on) ==
  IF v = "desktop"
  THEN {[text |-> Join(p.tokens), tokens |-> p.tokens,
         changed_words |-> p.changed_words] :
        p \in HayiPass(words, Len(words), m, nltk_on)}
  ELSE {[text |-> Join(p), tokens |-> p, changed_words |-> <<>>] :
        p \in ParaPass(words, Len(words), m)}

\* paraphrase raises when a token is looked up in a lexical database that is
\* not there.
ParaphraseRaises(v, words, nltk_on, lexicon_ok) ==
  v = "desktop" /\ nltk_on /\ ~lexicon_ok /\ words # <<>>

\* ------------------------------------------------------------------ inputs

\* A knowledge file edited by hand, or left by a session that learned the
\* record "happy,very glad".
HandEdited ==
  (W("make") :> <<W("produce")>>) @@
  (W("happy") :> <<W("joyful"), <<"very", " ", "glad">> >>)

InitialDisks == {Absent, Corrupt, JsonDump(HandEdited)}

\* Lines of a batch-learn input file.
Lines ==
  { <<"Happy", ",", "joyful", ",", "extra">>,
    <<"happy", ",", "HAPPY">>,
    <<"color", "\t", "colour">>,
    <<"joyful">> }

RECURSIVE SeqsUpTo(_, _)
SeqsUpTo(S, n) ==
  IF n = 0 THEN {<<>>}
  ELSE LET shorter == SeqsUpTo(S, n - 1)
       IN shorter \cup {Append(q, x) : q \in shorter, x \in S}

Files == SeqsUpTo(Lines, MaxRecords)

Paths == {[root |-> "words", ext |-> e] : e \in {".CSV", ".txt", ""}}

\* Texts to paraphrase.
Texts ==
  { <<"Happy", " ", "color", ".">>,
    <<"Hello">>,
    <<".">> }

Variants == {"desktop", "browser"}

\* ------------------------------------------------------------------ actions

\* The state after __init__ of variant v over the knowledge file.
Construct(v) ==
  LET l == load_knowledge(disk')
  IN /\ synonyms' = MergeDefaults(l.map)
     /\ newly_added_synonyms' = EmptyDict
     /\ use_nltk' = (v = "desktop")
     /\ applied' = {}
     /\ call' = [op |-> "init"]
     /\ ret' = [op |-> "init", loaded |-> l.map, errors |-> l.errors]

Init ==
  \E v \in Variants, d \in InitialDisks, ok \in BOOLEAN :
    LET l == load_knowledge(d)
    IN /\ variant = v
       /\ disk = d
       /\ wordnet_ok = (v = "desktop" /\ ok)
       /\ synonyms = MergeDefaults(l.map)
       /\ newly_added_synonyms = EmptyDict
       /\ use_nltk = (v = "desktop")
       /\ calls = 0
       /\ applied = {}
       /\ call = [op |-> "init"]
       /\ ret = [op |-> "init", loaded |-> l.map, errors |-> l.errors]

\* The application is closed and started again over the same knowledge file.
Restart ==
  /\ calls < MaxCalls
  /\ calls' = calls + 1
  /\ disk' = disk
  /\ Construct(variant)
  /\ UNCHANGED <<variant, wordnet_ok>>

\* The checkbox of the desktop form sets use_nltk.
SetUseNltk ==
  /\ calls < MaxCalls
  /\ calls' = calls + 1
  /\ variant = "desktop"
  /\ use_nltk' = ~use_nltk
  /\ call' = [op |-> "set_use_nltk"]
  /\ ret' = [op |-> "set_use_nltk"]
  /\ UNCHANGED <<variant, synonyms, newly_added_synonyms, wordnet_ok, disk,
                 applied>>

\* The faults a read of the file may meet: none (0) or the read of line k
\* raises.
Faults(lines) == {0} \cup 1..Len(lines)

\* At most one thing goes wrong in one call.
OneFault(open_ok, fault_at, write) ==
  /\ open_ok \/ (fault_at = 0 /\ write = "ok")
  /\ fault_at = 0 \/ write = "ok"

\* A call of batch_learn_synonyms on some file.  The record of the call
\* keeps the map before it, the faults met, the pairs handed to _add_synonym
\* and the maps handed to _save_knowledge; with log it also keeps the file.
BatchLearnWith(log) ==
  /\ calls < MaxCalls
  /\ calls' = calls + 1
  /\ \E path \in Paths, lines \in Files, open_ok \in BOOLEAN,
        write \in WriteOutcomes :
       \E fault_at \in Faults(lines) :
         /\ OneFault(open_ok, fault_at, write)
         /\ \E r \in {batch_learn_synonyms(variant, synonyms, disk, path,
                                          lines, open_ok, fault_at, write)} :
               /\ synonyms' = r.synonyms
               /\ newly_added_synonyms' = r.newly
               /\ disk' = r.disk
               /\ applied' = applied \cup Range(r.added)
               /\ call' = [op |-> "batch_learn", added |-> r.added,
                           before |-> synonyms, saves |-> r.saves,
                           open_ok |-> open_ok, fault_at |-> fault_at,
                           write |-> write,
                           file |-> IF log
                                    THEN <<[ext |-> path.ext, lines |-> lines]>>
                                    ELSE <<>>]
               /\ ret' = [op |-> "batch_learn",
                          total_words |-> r.total_words,
                          new_words |-> r.new_words, errors |-> r.errors]
  /\ UNCHANGED <<variant, use_nltk, wordnet_ok>>

BatchLearn == BatchLearnWith(FALSE)

\* The same call, with the file kept in the record of the call.
LearnFile == BatchLearnWith(TRUE)

\* The path main() of src/para.py saves every upload under.
TempPath == [root |-> "temp_synonym_file", ext |-> ""]

\* The types the file uploader of src/para.py accepts.
UploadTypes == {"csv", "txt", "tsv"}

\* main() of src/para.py on an upload: the script runs from its top, so the
\* paraphraser is constructed over the knowledge file, the upload is saved
\* under TempPath and handed to batch_learn_synonyms.
Upload ==
  /\ calls < MaxCalls
  /\ calls' = calls + 1
  /\ variant = "browser"
  /\ \E type \in UploadTypes, lines \in Files, write \in WriteOutcomes :
       \E m \in {MergeDefaults(load_knowledge(disk).map)} :
         \E r \in {batch_learn_synonyms(variant, m, disk, TempPath, lines,
                                        TRUE, 0, write)} :
           /\ synonyms' = r.synonyms
           /\ newly_added_synonyms' = r.newly
           /\ disk' = r.disk
           /\ applied' = Range(r.added)
           /\ call' = [op |-> "upload", added |-> r.added, before |-> m,
                       saves |-> r.saves, write |-> write,
                       file |-> <<[ext |-> type, lines |-> lines]>>]
           /\ ret' = [op |-> "upload", total_words |-> r.total_words,
                      new_words |-> r.new_words, errors |-> r.errors]
  /\ UNCHANGED <<variant, use_nltk, wordnet_ok>>

Paraphrase ==
  /\ calls < MaxCalls
  /\ calls' = calls + 1
  /\ \E text \in Texts, num_variations \in 1..MaxVariations :
       LET words == Tokenize(text)
       IN /\ call' = [op |-> "paraphrase", text |-> text,
                      num_variations |-> num_variations]
          /\ IF ParaphraseRaises(variant, words, use_nltk, wordnet_ok)
             THEN ret' = [op |-> "paraphrase", raised |-> TRUE,
                          variations |-> <<>>]
             ELSE \E vs \in [1..num_variations ->
                               Passes(variant, words, synonyms, use_nltk)] :
                    ret' = [op |-> "paraphrase", raised |-> FALSE,
                            variations |-> vs]
  /\ UNCHANGED <<variant, synonyms, newly_added_synonyms, use_nltk,
                 wordnet_ok, disk, applied>>

Next == BatchLearn \/ Paraphrase \/ SetUseNltk \/ Restart

Spec == Init /\ [][Next]_vars

\* The batch learner alone, with the files it is given on record.
NextFiles == LearnFile \/ Upload

SpecFiles == Init /\ [][NextFiles]_vars

\* ------------------------------------------------------------------ claims

\* v is in the list of k.
Has(m, k, v) == k \in DOMAIN m /\ Contains(m[k], v)

\* How often x occurs in list.
Count(list, x) == Cardinality({i \in 1..Len(list) : list[i] = x})

NoDuplicates(list) ==
  \A i, j \in 1..Len(list) : list[i] = list[j] => i = j

\* Both directions of every pair handed to _add_synonym in this session.
Symmetric ==
  \A p \in applied : Has(synonyms, p[1], p[2]) /\ Has(synonyms, p[2], p[1])

\* C1: in the desktop variant every pair handed to _add_synonym is in the
\* map in both directions, and stays there through every later batch-learn
\* call of the session.
C1_SymmetricDesktop == variant = "desktop" => Symmetric

\* A second batch-learn call has run and a pair of an earlier call of the same
\* session is still held.
C1_Witness ==
  /\ variant = "desktop"
  /\ call.op = "batch_learn"
  /\ \E p \in applied : ~Contains(call.added, p) /\ p[1] # p[2]

\* C2: in the browser variant every pair handed to _add_synonym is in the
\* map in both directions.
C2_SymmetricBrowser == variant = "browser" => Symmetric

\* The records of added, applied in order from the map m, that put at least
\* one new direction into the map.
RECURSIVE NewPairs(_, _, _)
NewPairs(v, m, added) ==
  IF added = <<>> THEN 0
  ELSE LET after == add_synonym(v, [synonyms |-> m, newly |-> EmptyDict],
                                added[1][1], added[1][2]).synonyms
       IN (IF after # m THEN 1 ELSE 0) + NewPairs(v, after, Tail(added))

\* C3: the second count returned by a batch-learn call is the number of its
\* records that added at least one new direction to the map (0 when every
\* pair of the file is already in the map).
C3_NewPairsCounted ==
  [][(call'.op = "batch_learn" /\ calls' = calls + 1)
       => ret'.new_words = NewPairs(variant, synonyms, call'.added)]_vars

\* C4: no word of the map has itself in its list, whatever was learned.
C4_NoSelfSynonym == \A k \in DOMAIN synonyms : ~Contains(synonyms[k], k)

\* The list of the store for a token, without the token's lowercase form.
StoreCandidates(word) ==
  {syn \in Range(Get(synonyms, Lower(word), <<>>)) : syn # Lower(word)}

\* C5: desktop paraphrase without the lexical expander puts, at every index
\* of every variation, a member of the store's list of the token when that
\* list (less the token) is not empty, and the token as typed otherwise.
C5_LearnedOrUnchanged ==
  (variant = "desktop" /\ ret.op = "paraphrase" /\ ~use_nltk) =>
    /\ ~ret.raised
    /\ \A v \in 1..Len(ret.variations) :
         LET words == Tokenize(call.text)
             out == ret.variations[v].tokens
         IN /\ Len(out) = Len(words)
            /\ \A i \in 1..Len(words) :
                 IF StoreCandidates(words[i]) # {}
                 THEN out[i] \in StoreCandidates(words[i])
                 ELSE out[i] = words[i]

\* One variation replaces a token by a learned synonym and another call keeps
\* a capitalised token as typed.
C5_Witness ==
  /\ variant = "desktop" /\ ret.op = "paraphrase" /\ ~use_nltk
  /\ call.text = <<"Happy", " ", "color", ".">>
  /\ \/ ret.variations[1].tokens = <<W("joyful"), W("color")>>
     \/ ret.variations[1].tokens = <<W("Happy"), W("color")>>

\* C6: the browser variant leaves a token whose lowercase form is no key of
\* the map as typed, in every variation.
C6_AbsentTokenUnchanged ==
  (variant = "browser" /\ ret.op = "paraphrase") =>
    \A v \in 1..Len(ret.variations) :
      LET words == Tokenize(call.text)
          out == ret.variations[v].tokens
      IN \A i \in 1..Len(words) :
           Lower(words[i]) \notin DOMAIN synonyms => out[i] = words[i]

\* C7: a change record is tagged NLTK only when the replacement is not in the
\* learned list of the token; a replacement of the learned list is tagged
\* Learned.
C7_LearnedTagWins ==
  (variant = "desktop" /\ ret.op = "paraphrase") =>
    \A v \in 1..Len(ret.variations) :
      \A r \in Range(ret.variations[v].changed_words) :
        IF r.new \in StoreCandidates(r.original)
        THEN r.source = "Learned"
        ELSE r.source = "NLTK"

\* C8: paraphrase returns its variations even when the lexical database is
\* missing.
C8_LexiconFailureContained ==
  (variant = "desktop" /\ ret.op = "paraphrase") =>
    /\ ~ret.raised
    /\ Len(ret.variations) = call.num_variations

\* C9: after initialisation the keys are those of the loaded map and of the
\* defaults; every loaded key keeps its loaded list and every other default
\* key has the default list.
C9_MergeKeepsLoaded ==
  ret.op = "init" =>
    /\ DOMAIN synonyms = DOMAIN ret.loaded \cup DOMAIN base_synonyms
    /\ \A k \in DOMAIN ret.loaded : synonyms[k] = ret.loaded[k]
    /\ \A k \in DOMAIN base_synonyms \ DOMAIN ret.loaded :
         synonyms[k] = base_synonyms[k]

\* The loaded map has a default key with another list, and lacks a default
\* key.
C9_Witness ==
  /\ ret.op = "init"
  /\ \E k \in DOMAIN ret.loaded \cap DOMAIN base_synonyms :
       ret.loaded[k] # base_synonyms[k]
  /\ DOMAIN base_synonyms \ DOMAIN ret.loaded # {}

\* The words a batch file can hand to _add_synonym, and the keys of the map.
LearnableWords ==
  {Lower(f) : f \in UNION {Range(CsvRow(l)) \cup Range(TxtParts(l)) :
                           l \in Lines}}

\* _add_synonym on the map alone.
AddPair(m, w, s) ==
  add_synonym(variant, [synonyms |-> m, newly |-> EmptyDict], w, s).synonyms

\* C10: for the current map and all words w, s, _add_synonym(w, s) applied
\* twice gives the map it gives applied once, and the lists of that map have
\* no duplicates.
C10_AddIdempotent ==
  \A w, s \in LearnableWords \cup DOMAIN synonyms :
    LET once == AddPair(synonyms, w, s)
    IN /\ AddPair(once, w, s) = once
       /\ \A k \in DOMAIN once :
            NoDuplicates(once[k]) /\ (k \notin {w, s} => once[k] = synonyms[k])

\* A batch-learn call handed the same pair to _add_synonym twice and the map
\* holds it once.
C10_Witness ==
  /\ call.op = "batch_learn"
  /\ Len(call.added) = 2
  /\ call.added[1] = call.added[2]
  /\ Count(synonyms[call.added[1][1]], call.added[1][2]) = 1

\* ------------------------------------------------- claims on the files

\* The record format the extension of a file stands for.
FormatOf(ext) == IF LowerChunk(ext) \in {".csv", "csv"} THEN "csv" ELSE "txt"

\* The lines a call read before it returned.
LinesRead(c) ==
  IF ~c.open_ok THEN 0
  ELSE IF c.fault_at > 0 THEN c.fault_at - 1 ELSE Len(c.file[1].lines)

\* Among the first n lines, those that yield at least two fields.
Qualifying(format, lines, n) ==
  {i \in 1..n : Len(Fields(format, lines[i])) >= 2}

\* The first two fields, lowercased, of the qualifying lines among the first n,
\* in the order of the file.
RECURSIVE PairsOf(_, _, _)
PairsOf(format, lines, n) ==
  IF n = 0 THEN <<>>
  ELSE LET row == Fields(format, lines[n])
       IN PairsOf(format, lines, n - 1) \o
            (IF Len(row) >= 2 THEN << <<Lower(row[1]), Lower(row[2])>> >>
             ELSE <<>>)

\* _add_synonym on each pair in turn.
RECURSIVE ApplyPairs(_, _, _)
ApplyPairs(v, m, pairs) ==
  IF pairs = <<>> THEN m
  ELSE ApplyPairs(v, add_synonym(v, [synonyms |-> m, newly |-> EmptyDict],
                                 pairs[1][1], pairs[1][2]).synonyms,
                  Tail(pairs))

\* Every word of a map: its keys and the members of its lists.
WordsOf(m) == DOMAIN m \cup UNION {Range(m[k]) : k \in DOMAIN m}

\* A call of batch_learn_synonyms on a file on record with extension .csv,
\* .txt or .tsv.
LearnedFrom(exts) ==
  /\ call.op = "batch_learn"
  /\ call.file # <<>>
  /\ LowerChunk(call.file[1].ext) \in exts

\* C11: for a .csv, .txt or .tsv file the first count is the number of
\* records read that yield at least two fields; the map after the call is the
\* map before it with the first two fields of exactly those records added, so
\* a shorter record changes nothing and no later field enters the map.
C11_CountsQualifying ==
  LearnedFrom({".csv", ".txt", ".tsv"}) =>
    LET format == FormatOf(call.file[1].ext)
        lines == call.file[1].lines
        n == LinesRead(call)
        pairs == PairsOf(format, lines, n)
    IN /\ ret.total_words = Cardinality(Qualifying(format, lines, n))
       /\ synonyms = ApplyPairs(variant, call.before, pairs)
       /\ WordsOf(synonyms) \subseteq
            WordsOf(call.before) \cup
              UNION {{pairs[i][1], pairs[i][2]} : i \in 1..Len(pairs)}

\* A whole file of one record of three fields and one record of one field.
C11_Witness ==
  /\ LearnedFrom({".csv", ".txt", ".tsv"})
  /\ call.open_ok /\ call.fault_at = 0
  /\ call.file[1].lines =
       << <<"Happy", ",", "joyful", ",", "extra">>, <<"joyful">> >>
  /\ ret.total_words = 1
  /\ W("extra") \notin WordsOf(synonyms)

\* The read of the file of a call raised.
Faulted == ~call.open_ok \/ call.fault_at > 0

\* C12: a call whose read of the file faults returns (it reports the error)
\* with the count of the qualifying records read before the fault, and every
\* pair of those records is in the map after the call.
C12_FaultKeepsApplied ==
  (LearnedFrom({".csv", ".txt", ".tsv"}) /\ Faulted) =>
    LET format == FormatOf(call.file[1].ext)
        lines == call.file[1].lines
        pairs == PairsOf(format, lines, LinesRead(call))
    IN /\ ret.errors = <<"Error learning from file">>
       /\ ret.total_words = Len(pairs)
       /\ \A i \in 1..Len(pairs) : Has(synonyms, pairs[i][1], pairs[i][2])
       /\ synonyms = ApplyPairs(variant, call.before, pairs)

\* The read faulted at the second line, after a qualifying first record that
\* was new to the map.
C12_Witness ==
  /\ LearnedFrom({".csv", ".txt", ".tsv"})
  /\ call.fault_at = 2
  /\ ret.total_words = 1
  /\ synonyms # call.before

\* ------------------------------------------- claims on the knowledge file

\* C13: construction returns whatever the knowledge file holds.  With the file
\* absent the loaded map is empty and nothing is reported; with a file that
\* cannot be read or parsed the error is reported and the loaded map is empty;
\* in both cases the map after construction is exactly the built-in one.
C13_LoadNeverRaises ==
  ret.op = "init" =>
    /\ disk.kind = "absent" =>
         /\ ret.loaded = EmptyDict
         /\ ret.errors = <<>>
         /\ synonyms = base_synonyms
    /\ disk.kind = "corrupt" =>
         /\ ret.loaded = EmptyDict
         /\ ret.errors = <<"Error loading knowledge">>
         /\ synonyms = base_synonyms

\* The application was started again over a file that a failed dump left
\* unparsable.
C13_Witness ==
  /\ ret.op = "init"
  /\ calls = 2
  /\ disk = Corrupt
  /\ ret.errors # <<>>

\* A call of batch_learn_synonyms that reached _save_knowledge.
Persisted == call.op = "batch_learn" /\ call.saves # <<>>

\* C14: when the write of the knowledge file fails, the error is reported, the
\* call still returns its counts, and the map in memory is the one handed to
\* the write, holding every pair the call applied.
C14_FailedWriteKeepsMemory ==
  (Persisted /\ call.write # "ok") =>
    /\ ret.errors = <<"Error saving knowledge">>
    /\ ret.total_words = Len(call.added)
    /\ call.saves = <<synonyms>>
    /\ synonyms = ApplyPairs(variant, call.before, call.added)
    /\ \A p \in Range(call.added) : Has(synonyms, p[1], p[2])

\* The write failed after the call applied a pair that changed the map.
C14_Witness ==
  /\ Persisted
  /\ call.write = "dump_failed"
  /\ call.added # <<>>
  /\ synonyms # call.before
  /\ disk = Corrupt

C16_CountAndLength ==
  ret.op = "paraphrase" =>
    /\ Len(ret.variations) = call.num_variations
    /\ \A v \in 1..Len(ret.variations) :
         Len(ret.variations[v].tokens) = Len(Tokenize(call.text))

\* C17: after batch_learn_synonyms of the desktop variant the delta holds,
\* under each word, exactly what the call appended to the word's list: the
\* list after the call is the list before it followed by the delta's list,
\* the delta has no other key, and it is empty when the map did not change.
C17_DeltaOfLastCall ==
  (variant = "desktop" /\ call.op = "batch_learn") =>
    /\ \A w \in DOMAIN synonyms \cup DOMAIN newly_added_synonyms :
         Get(synonyms, w, <<>>) =
           Get(call.before, w, <<>>) \o Get(newly_added_synonyms, w, <<>>)
    /\ \A w \in DOMAIN newly_added_synonyms :
         /\ newly_added_synonyms[w] # <<>>
         /\ \A s \in Range(newly_added_synonyms[w]) :
              ~Contains(Get(call.before, w, <<>>), s)
    /\ synonyms = call.before => newly_added_synonyms = EmptyDict

\* A second call whose delta holds its own additions and not the word an
\* earlier call had added.
C17_Witness ==
  /\ variant = "desktop" /\ call.op = "batch_learn" /\ calls = 2
  /\ W("color") \in DOMAIN call.before
  /\ <<W("color"), W("colour")>> \in applied
  /\ W("color") \notin DOMAIN newly_added_synonyms
  /\ newly_added_synonyms # EmptyDict

\* C18: in every variation of the desktop variant each change record names,
\* zero-based, the place of its new word among the words of the returned text
\* and of its original among the words of the input; the places increase; and
\* a word of the returned text at a place without a record is the input's.
C18_PositionsMatchOutput ==
  (variant = "desktop" /\ ret.op = "paraphrase") =>
    \A v \in 1..Len(ret.variations) :
      LET input_tokens == Tokenize(call.text)
          output_tokens == Split(ret.variations[v].text)
          changed_words == ret.variations[v].changed_words
      IN /\ \A i \in 1..Len(changed_words) :
              LET r == changed_words[i]
              IN /\ r.position + 1 \in 1..Len(output_tokens)
                 /\ r.position + 1 \in 1..Len(input_tokens)
                 /\ output_tokens[r.position + 1] = r.new
                 /\ input_tokens[r.position + 1] = r.original
         /\ \A i, j \in 1..Len(changed_words) :
              i < j => changed_words[i].position < changed_words[j].position
         /\ \A p \in 1..Len(output_tokens) :
              (\A i \in 1..Len(changed_words) :
                 changed_words[i].position # p - 1) =>
                /\ p \in 1..Len(input_tokens)
                /\ output_tokens[p] = input_tokens[p]

\* C19: an upload of the browser form counts and applies every qualifying
\* record of the uploaded file, read in the format of the file's type.
C19_UploadLearnsRecords ==
  call.op = "upload" =>
    LET format == FormatOf(call.file[1].ext)
        lines == call.file[1].lines
        pairs == PairsOf(format, lines, Len(lines))
    IN /\ ret.total_words = Len(pairs)
       /\ synonyms = ApplyPairs(variant, call.before, pairs)

====
